---- MODULE Spec2Model ----
(***************************************************************************)
(* Loan amortization and payment allocation of src/app.py:                 *)
(*   calcular_cronograma (lines 409-439) and estado_cuotas (441-469),      *)
(* driven by the payment form (lines 1075-1088) and the system clock.      *)
(*                                                                         *)
(* Money is counted in cents (integers).  The unrounded float values the   *)
(* code carries (cuota, saldo, interes, amortizacion) are exact rationals  *)
(* <<numerator, denominator>>; round(x, 2) yields the nearest cent and, on *)
(* an exact half cent, either neighbour (the binary float nearest to a     *)
(* decimal tie lies above or below it).  Dates are day numbers.            *)
(***************************************************************************)
EXTENDS Integers, Sequences, FiniteSets, TLC

\* ------------------------------------------------------------------ bounds
MaxPlazo == 3
MaxPagos == 2
RelojInicial == 89
MaxReloj == 92
MaxClientes == 2
MaxPrestamos == 2

\* Values of the widgets of the loan form (lines 885-892), in cents / percent.
Montos == {1, 100, 300}
Tasas == {0, 120, 600}
Plazos == 1..MaxPlazo
Frecuencias == {12, 4, 2, 1}
Fechas == {0, 60}
\* Arguments a direct caller may also pass (no widget in between).
MontosLlamada == Montos \cup {0 - 300, 0}
TasasLlamada == Tasas \cup {0 - 120}
PlazosLlamada == Plazos \cup {0 - 1, 0}
FrecuenciasLlamada == Frecuencias \cup {0}
\* Values of the payment form (line 1029: min_value=0.0).
MontosPago == {0, 50, 100}
\* The options of "Tipo de cuotas" (line 898).
TiposAmortizacion == {"capital_interes", "solo_interes"}
\* Texts typed in the widget "Nombre completo" (line 544), as sequences of
\* characters.
Nombres == {<<>>, <<" ">>, <<"a">>, <<"a", " ">>, <<"b">>}
\* The options of "Tipo de abono" (line 1033).
TiposAbono == {"ambos", "capital", "interes"}

\* program constants
MesesPorAnio == 12
DiasPorAnio == 365
Cien == 100

\* --------------------------------------------------------------- rationals
Abs(x) == IF x < 0 THEN 0 - x ELSE x
Min(a, b) == IF a <= b THEN a ELSE b
Max(a, b) == IF a >= b THEN a ELSE b

RECURSIVE GCD(_, _)
GCD(a, b) == IF b = 0 THEN a ELSE GCD(b, a % b)

\* int(n / d) of Python for d > 0: truncation toward zero.
Trunc(n, d) == IF n >= 0 THEN n \div d ELSE 0 - ((0 - n) \div d)

\* The rational n/d in lowest terms with a positive denominator (d # 0).
Q(n, d) ==
    LET g == GCD(Abs(n), Abs(d))
        s == IF d < 0 THEN 0 - 1 ELSE 1
    IN  <<(s * n) \div g, (s * d) \div g>>
QInt(n) == <<n, 1>>
QIsZero(a) == a[1] = 0
QAdd(a, b) ==
    LET l == (a[2] \div GCD(a[2], b[2])) * b[2]
    IN  Q(a[1] * (l \div a[2]) + b[1] * (l \div b[2]), l)
QNeg(a) == <<0 - a[1], a[2]>>
QSub(a, b) == QAdd(a, QNeg(b))
QMul(a, b) ==
    LET g1 == GCD(Abs(a[1]), b[2])
        g2 == GCD(Abs(b[1]), a[2])
    IN  Q((a[1] \div g1) * (b[1] \div g2), (a[2] \div g2) * (b[2] \div g1))
QInv(a) == Q(a[2], a[1])
QDiv(a, b) == QMul(a, QInv(b))
QLess(a, b) == a[1] * b[2] < b[1] * a[2]
RECURSIVE QPow(_, _)
QPow(a, k) == IF k = 0 THEN QInt(1) ELSE QMul(a, QPow(a, k - 1))
\* a ** -n for an integer n of either sign (a # 0 when n > 0).
QPowNeg(a, n) == IF n >= 0 THEN QInv(QPow(a, n)) ELSE QPow(a, 0 - n)

\* round(x, 2) on a value x counted in cents: the nearest cent; an exact half
\* cent may go either way.
Round2(x) ==
    LET fl == x[1] \div x[2]
        r2 == 2 * (x[1] - fl * x[2])
    IN  IF r2 < x[2] THEN {fl}
        ELSE IF r2 > x[2] THEN {fl + 1}
        ELSE {fl, fl + 1}

\* ---------------------------------------------------------- wide rationals
\* The same exact arithmetic on numbers of any size, for loans whose powers
\* (1 + tasa_periodo) ** pagos_totales do not fit a machine integer.  A
\* natural number is the sequence of its digits in base Base, lowest first,
\* without leading zeros; a rational is <<sign, numerator, denominator>>, in
\* lowest terms when both fit three digits and otherwise over the larger of
\* two denominators when one divides the other.
Base == 1000

\* TRUE, once the value of a has been computed: the operators below compute
\* their arguments and intermediate values before they use them.
Calculado(a) == a = a

RECURSIVE NNorm(_)
NNorm(a) ==
    IF a = <<>> THEN a
    ELSE IF a[Len(a)] = 0 THEN NNorm(SubSeq(a, 1, Len(a) - 1)) ELSE a
RECURSIVE NFromInt(_)
NFromInt(n) == IF n = 0 THEN <<>> ELSE <<n % Base>> \o NFromInt(n \div Base)
RECURSIVE NToInt(_)
NToInt(a) == IF a = <<>> THEN 0 ELSE a[1] + Base * NToInt(Tail(a))
RECURSIVE NCmpDesde(_, _, _)
NCmpDesde(a, b, k) ==
    IF k = 0 THEN 0
    ELSE IF a[k] < b[k] THEN 0 - 1
    ELSE IF a[k] > b[k] THEN 1
    ELSE NCmpDesde(a, b, k - 1)
NCmp(a, b) ==
    IF Len(a) < Len(b) THEN 0 - 1
    ELSE IF Len(a) > Len(b) THEN 1
    ELSE NCmpDesde(a, b, Len(a))
Resto(a) == IF a = <<>> THEN a ELSE Tail(a)
Bajo(a) == IF a = <<>> THEN 0 ELSE a[1]
RECURSIVE NAddC(_, _, _)
NAddC(a, b, c) ==
    IF a = <<>> /\ b = <<>> THEN (IF c = 0 THEN <<>> ELSE <<c>>)
    ELSE LET x == Bajo(a) + Bajo(b) + c
         IN  <<x % Base>> \o NAddC(Resto(a), Resto(b), x \div Base)
NAdd(a, b) == NAddC(a, b, 0)
RECURSIVE NSubB(_, _, _)
NSubB(a, b, c) ==
    IF a = <<>> THEN <<>>
    ELSE LET x == a[1] - Bajo(b) - c
         IN  <<IF x < 0 THEN x + Base ELSE x>>
                 \o NSubB(Tail(a), Resto(b), IF x < 0 THEN 1 ELSE 0)
NSub(a, b) == NNorm(NSubB(a, b, 0))
RECURSIVE NMulSmallC(_, _, _)
NMulSmallC(a, m, c) ==
    IF a = <<>> THEN NFromInt(c)
    ELSE LET x == a[1] * m + c
         IN  <<x % Base>> \o NMulSmallC(Tail(a), m, x \div Base)
NMulSmall(a, m) == IF m = 0 THEN <<>> ELSE NMulSmallC(a, m, 0)
\* a times Base ** n.
Desplazado(a, n) == IF a = <<>> THEN a ELSE [j \in 1..n |-> 0] \o a
\* a times the number whose digits are the digits lo..hi of b: the lower half
\* of the digits, then the upper half.
RECURSIVE NMulRango(_, _, _, _)
NMulRango(a, b, lo, hi) ==
    IF lo = hi THEN NMulSmall(a, b[lo])
    ELSE LET mid == (lo + hi) \div 2
             bajo == NMulRango(a, b, lo, mid)
             alto == NMulRango(a, b, mid + 1, hi)
         IN  IF ~(Calculado(bajo) /\ Calculado(alto)) THEN <<>>
             ELSE NAdd(bajo, Desplazado(alto, mid + 1 - lo))
NMul(a, b) ==
    IF b = <<>> \/ a = <<>> THEN <<>> ELSE NMulRango(a, b, 1, Len(b))
\* The digits of a from position k up, as a number (at most three digits).
Alto(a, k) == IF k > Len(a) THEN 0 ELSE NToInt(SubSeq(a, k, Len(a)))
\* The digit rem \div b, for 0 <= rem < b * Base: computed on the numbers
\* themselves when b has at most two digits, and otherwise chosen between
\* the bounds that the two leading digits of b give.
DigitoEntre(rem, b, bt, rt) ==
    CHOOSE d \in (rt \div (bt + 1))..Min((rt + 1) \div bt, Base - 1) :
        /\ NCmp(NMulSmall(b, d), rem) <= 0
        /\ NCmp(NMulSmall(b, d + 1), rem) > 0
Digito(rem, b) ==
    IF Len(b) <= 2 THEN NToInt(rem) \div NToInt(b)
    ELSE DigitoEntre(rem, b, Alto(b, Len(b) - 1), Alto(rem, Len(b) - 1))
\* One step of the long division: the digit d of r1 \div b and the remainder.
NDivDigito(r1, b, d) ==
    IF ~(Calculado(r1) /\ Calculado(d)) THEN << <<>>, <<>> >>
    ELSE << <<d>>, NSub(r1, NMulSmall(b, d)) >>
\* The quotient digits of the lower half before those of the upper half.
NDivUnir(alto, bajo) ==
    IF ~Calculado(bajo) THEN << <<>>, <<>> >>
    ELSE << bajo[1] \o alto[1], bajo[2] >>
\* Long division of the digits hi down to lo of a by b (b # 0), entered with
\* the remainder rem < b of the digits above hi: the upper half of the
\* digits, then the lower half.  <<digits lo..hi of the quotient, remainder>>.
RECURSIVE NDivRango(_, _, _, _, _)
RECURSIVE NDivBajo(_, _, _, _, _)
NDivBajo(a, b, lo, mid, alto) ==
    IF ~Calculado(alto) THEN << <<>>, <<>> >>
    ELSE NDivUnir(alto, NDivRango(a, b, lo, mid, alto[2]))
NDivUno(r1, b) == NDivDigito(r1, b, Digito(r1, b))
NDivRango(a, b, lo, hi, rem) ==
    IF lo = hi THEN NDivUno(NNorm(<<a[lo]>> \o rem), b)
    ELSE NDivBajo(a, b, lo, (lo + hi) \div 2,
                  NDivRango(a, b, (lo + hi) \div 2 + 1, hi, rem))
NCociente(qr) == << NNorm(qr[1]), qr[2] >>
\* <<a \div b, a % b>> for b # 0.
NDivMod(a, b) ==
    IF a = <<>> THEN << <<>>, <<>> >>
    ELSE NCociente(NDivRango(a, b, 1, Len(a), <<>>))

WCero == <<1, <<>>, <<1>> >>
WQ(sg, n, d) ==
    IF n = <<>> THEN WCero
    ELSE IF Len(n) <= 3 /\ Len(d) <= 3
    THEN LET g == GCD(NToInt(n), NToInt(d))
         IN  <<sg, NFromInt(NToInt(n) \div g), NFromInt(NToInt(d) \div g)>>
    ELSE <<sg, n, d>>
WInt(k) == IF k = 0 THEN WCero ELSE <<IF k < 0 THEN 0 - 1 ELSE 1, NFromInt(Abs(k)), <<1>> >>
WFrac(n, d) ==
    WQ(IF (n < 0) # (d < 0) THEN 0 - 1 ELSE 1, NFromInt(Abs(n)), NFromInt(Abs(d)))
WIsZero(a) == a[2] = <<>>
WNeg(a) == IF WIsZero(a) THEN a ELSE <<0 - a[1], a[2], a[3]>>
\* a and b over a common denominator: <<numerator, numerator, denominator>>.
WComunDiv(a, b, ab, ba) ==
    IF ab[2] = <<>> THEN <<NMul(a[2], ab[1]), b[2], b[3]>>
    ELSE IF ba[2] = <<>> THEN <<a[2], NMul(b[2], ba[1]), a[3]>>
    ELSE <<NMul(a[2], b[3]), NMul(b[2], a[3]), NMul(a[3], b[3])>>
WComun(a, b) ==
    IF a[3] = b[3] THEN <<a[2], b[2], a[3]>>
    ELSE WComunDiv(a, b, NDivMod(b[3], a[3]), NDivMod(a[3], b[3]))
\* The sum of a and b from their numerators c over a common denominator.
WAddComun(a, b, c) ==
    IF a[1] = b[1] THEN WQ(a[1], NAdd(c[1], c[2]), c[3])
    ELSE IF NCmp(c[1], c[2]) >= 0 THEN WQ(a[1], NSub(c[1], c[2]), c[3])
    ELSE WQ(b[1], NSub(c[2], c[1]), c[3])
WAdd(a, b) ==
    IF ~(Calculado(a) /\ Calculado(b)) THEN WCero
    ELSE WAddComun(a, b, WComun(a, b))
WSub(a, b) == WAdd(a, WNeg(b))
WMul(a, b) ==
    IF ~(Calculado(a) /\ Calculado(b)) THEN WCero
    ELSE WQ(a[1] * b[1], NMul(a[2], b[2]), NMul(a[3], b[3]))
WInv(a) == <<a[1], a[3], a[2]>>
WDiv(a, b) == WMul(a, WInv(b))
WLess(a, b) == WSub(a, b)[1] < 0
WEq(a, b) == WIsZero(WSub(a, b))
RECURSIVE WPow(_, _)
WPow(a, k) == IF k = 0 THEN WInt(1) ELSE WMul(a, WPow(a, k - 1))
WPowNeg(a, n) == IF n >= 0 THEN WInv(WPow(a, n)) ELSE WPow(a, 0 - n)
\* The roundings of x from fl, the floor of x, and c, the comparison of
\* twice x - fl with 1.
WRound2De(fl, c) ==
    IF c < 0 THEN {fl} ELSE IF c > 0 THEN {fl + 1} ELSE {fl, fl + 1}
\* The roundings of x from dm, the quotient and remainder of its terms.
WRound2Resto(x, dm) ==
    IF x[1] > 0 \/ dm[2] = <<>>
    THEN WRound2De(x[1] * NToInt(dm[1]), NCmp(NMulSmall(dm[2], 2), x[3]))
    ELSE WRound2De(0 - NToInt(dm[1]) - 1,
                   NCmp(NMulSmall(NSub(x[3], dm[2]), 2), x[3]))
WRound2(x) == WRound2Resto(x, NDivMod(x[2], x[3]))


\* ------------------------------------------------------------------- state
VARIABLES
    prestamo,          \* arguments of calcular_cronograma: the loan row
    pc,                \* calcular_cronograma: "inicio", "bucle", "listo", "error"
    error,             \* exception raised by calcular_cronograma, or "ninguno"
    pagos_totales,     \* local of calcular_cronograma (line 413)
    tasa_periodo,      \* local (line 414), a rational
    cuota,             \* local (lines 416-419), a rational number of cents
    cuota_red,         \* round(cuota, 2) (line 433), in cents
    saldo,             \* local (lines 422, 427), a rational number of cents
    i,                 \* loop variable (line 424)
    cronograma,        \* the rows appended so far (lines 421, 430-437)
    pagos,             \* table pagos of the loan, in insertion order
    reloj,             \* the system date, date.today()
    ec,                \* estado_cuotas: "sin_llamar", "devuelto", "KeyError"
    ec_pagos_totales,  \* local pagos_totales of estado_cuotas (line 447)
    hoy,               \* local hoy of estado_cuotas (line 459)
    estado,            \* the rows estado_cuotas returned
    cronograma_ant,    \* the table an earlier call with the same loan returned
    menu,              \* st.session_state['menu'] (lines 512-528)
    pagos_b,           \* table pagos of a second loan with the same terms
    llamadas,          \* calls of estado_cuotas on either loan: arguments,
                       \* date read and rows returned
    tipo_amortizacion, \* column tipo_amortizacion of the loan row (lines 64,
                       \* 943); no argument of calcular_cronograma
    bd_clientes,       \* table clientes: rows [id, nombre]
    bd_prestamos,      \* table prestamos: rows [id, cliente_id, monto]
    bd_pagos,          \* table pagos: for each prestamo_id, its rows in
                       \* insertion order
    bd_seq,            \* the last id AUTOINCREMENT gave in each table
    foreign_keys,      \* whether the SQLite library enforces foreign keys
                       \* when the program does not set the pragma
    retorno            \* the last call of a function of the store: its
                       \* name, its argument and what it returned or raised

vars == <<prestamo, pc, error, pagos_totales, tasa_periodo, cuota, cuota_red,
          saldo, i, cronograma, pagos, reloj, ec, ec_pagos_totales, hoy, estado,
          cronograma_ant, menu, pagos_b, llamadas, tipo_amortizacion,
          bd_clientes, bd_prestamos, bd_pagos, bd_seq, foreign_keys, retorno>>
cc_vars == <<prestamo, pc, error, pagos_totales, tasa_periodo, cuota, cuota_red,
             saldo, i, cronograma>>
cc_locales == <<prestamo, pc, error, pagos_totales, tasa_periodo, cuota,
                cuota_red, saldo, i>>
ec_vars == <<ec, ec_pagos_totales, hoy, estado>>
otras_vars == <<cronograma_ant, menu, pagos_b, llamadas>>
bd_vars == <<tipo_amortizacion, bd_clientes, bd_prestamos, bd_pagos, bd_seq,
             foreign_keys, retorno>>

\* ---------------------------------------------------- calcular_cronograma
\* line 413: pagos_totales = int(plazo_meses * frecuencia / 12)
PagosTotales(plazo_meses, frecuencia) ==
    Trunc(plazo_meses * frecuencia, MesesPorAnio)

\* line 414: tasa_periodo = tasa_anual / 100 / frecuencia   (frecuencia # 0)
TasaPeriodo(tasa_anual, frecuencia) == Q(tasa_anual, Cien * frecuencia)

\* The divisions of lines 414, 417 and 419 that divide by zero.
DivisionPorCero(p) ==
    \/ p.frecuencia = 0
    \/ /\ p.frecuencia # 0
       /\ LET n == PagosTotales(p.plazo, p.frecuencia)
              r == TasaPeriodo(p.tasa, p.frecuencia)
              b == QAdd(QInt(1), r)
          IN  IF QIsZero(r) THEN n = 0
              ELSE \/ QIsZero(b) /\ n > 0
                   \/ ~(QIsZero(b) /\ n > 0)
                      /\ QIsZero(QSub(QInt(1), QPowNeg(b, n)))

\* Mutants of Cuota: the rate is ignored; the principal is divided by one
\* payment too many.
CuotaSinInteres(monto, r, n) == QDiv(QInt(monto), QInt(n))
CuotaUnPagoMas(monto, r, n) ==
    IF QIsZero(r) THEN QDiv(QInt(monto), QInt(n + 1))
    ELSE QMul(QInt(monto),
              QDiv(r, QSub(QInt(1), QPowNeg(QAdd(QInt(1), r), n))))
\* lines 416-419: the level payment (no division by zero).
Cuota(monto, r, n) ==
    IF QIsZero(r) THEN QDiv(QInt(monto), QInt(n))
    ELSE QMul(QInt(monto),
              QDiv(r, QSub(QInt(1), QPowNeg(QAdd(QInt(1), r), n))))

\* Mutant of Interes: flat interest on the original principal.
InteresSobreMonto(s, r) == QMul(QInt(prestamo.monto), r)
\* line 425: interes = saldo * tasa_periodo
Interes(s, r) == QMul(s, r)
\* line 426: amortizacion = cuota - interes
Amortizacion(c, int) == QSub(c, int)
\* Mutants of Saldo: the principal portion is added to the balance; the
\* balance carried to the next period is rounded to the cent.
SaldoRedondeado(s, am) ==
    LET d == QSub(s, am)
    IN  IF QLess(d, QInt(0)) THEN QInt(0)
        ELSE QInt(CHOOSE x \in Round2(d) : TRUE)
SaldoSumando(s, am) == QAdd(s, am)
\* line 427: saldo = max(0, saldo - amortizacion)
Saldo(s, am) ==
    LET d == QSub(s, am) IN IF QLess(d, QInt(0)) THEN QInt(0) ELSE d
\* Mutant of FechaPago: the due dates step by months of 30 days.
FechaPagoPorMeses(fecha_desembolso, k, frecuencia) ==
    fecha_desembolso + k * Trunc(MesesPorAnio, frecuencia) * 30
\* Mutant of FechaPago: the due dates are counted from the current date.
FechaPagoDesdeHoy(fecha_desembolso, k, frecuencia) ==
    reloj + Trunc(k * DiasPorAnio, frecuencia)
\* line 428: fecha_pago = fecha_desembolso + timedelta(days=int(i * 365 / frecuencia))
FechaPago(fecha_desembolso, k, frecuencia) ==
    fecha_desembolso + Trunc(k * DiasPorAnio, frecuencia)
\* Mutant of UltimoPeriodo: range(1, pagos_totales).
UltimoPeriodoMenosUno(n) == n - 1
\* line 424: range(1, pagos_totales + 1)
UltimoPeriodo(n) == n

\* Mutant of Fila: the payment reported is the sum of the two portions reported.
FilaCuotaSuma(k, fecha_pago, c2, ri, ra, rs) ==
    [Periodo |-> k, Fecha |-> fecha_pago, Cuota |-> ri + ra,
     Interes |-> ri, Amortizacion |-> ra, Saldo |-> rs]
\* lines 430-437: the row appended for period k.
Fila(k, fecha_pago, c2, ri, ra, rs) ==
    [Periodo |-> k, Fecha |-> fecha_pago, Cuota |-> c2,
     Interes |-> ri, Amortizacion |-> ra, Saldo |-> rs]

\* round(x, 2) for column col of row k.  round is a function of its float:
\* where an earlier call with the same loan rounded the same value, this call
\* gets what that call got.
Redondeo(x, col, k) ==
    LET antes == IF k \in 1..Len(cronograma_ant)
                 THEN {cronograma_ant[k][col]} \cap Round2(x) ELSE {}
    IN  IF antes # {} THEN antes ELSE Round2(x)

\* Lines 413-423.  A division by zero raises ZeroDivisionError on Python
\* numbers; on numpy scalars (the elements of a pandas row, lines 788-794 and
\* 1295-1301) it yields inf/nan and, pagos_totales being 0 there, the loop
\* does not run and an empty table is returned.
CalcularCronograma ==
    /\ pc = "inicio"
    /\ IF DivisionPorCero(prestamo)
       THEN /\ \/ /\ pc' = "error"
                  /\ error' = "ZeroDivisionError"
               \/ /\ prestamo.frecuencia = 0
                     \/ PagosTotales(prestamo.plazo, prestamo.frecuencia) <= 0
                  /\ pc' = "listo"
                  /\ error' = error
            /\ UNCHANGED <<pagos_totales, tasa_periodo, cuota, cuota_red, saldo, i>>
       ELSE LET n == PagosTotales(prestamo.plazo, prestamo.frecuencia)
                r == TasaPeriodo(prestamo.tasa, prestamo.frecuencia)
                c == Cuota(prestamo.monto, r, n)
            IN  /\ pagos_totales' = n
                /\ tasa_periodo' = r
                /\ cuota' = c
                /\ \E c2 \in Redondeo(c, "Cuota", 1) : cuota_red' = c2
                /\ saldo' = QInt(prestamo.monto)
                /\ i' = 1
                /\ pc' = IF UltimoPeriodo(n) >= 1 THEN "bucle" ELSE "listo"
                /\ error' = error
    /\ UNCHANGED <<prestamo, cronograma, pagos, reloj>>
    /\ UNCHANGED ec_vars
    /\ UNCHANGED otras_vars
    /\ UNCHANGED bd_vars

\* Lines 424-437: one iteration of the loop; the return of line 439 follows
\* the last one.
CronogramaPaso ==
    /\ pc = "bucle"
    /\ LET interes == Interes(saldo, tasa_periodo)
           amortizacion == Amortizacion(cuota, interes)
           nsaldo == Saldo(saldo, amortizacion)
           fecha_pago == FechaPago(prestamo.fecha_desembolso, i, prestamo.frecuencia)
       IN  /\ saldo' = nsaldo
           /\ \E ri \in Redondeo(interes, "Interes", i),
                 ra \in Redondeo(amortizacion, "Amortizacion", i),
                 rs \in Redondeo(nsaldo, "Saldo", i) :
                cronograma' = Append(cronograma,
                    Fila(i, fecha_pago, cuota_red, ri, ra, rs))
    /\ i' = i + 1
    /\ pc' = IF i >= UltimoPeriodo(pagos_totales) THEN "listo" ELSE "bucle"
    /\ UNCHANGED <<prestamo, error, pagos_totales, tasa_periodo, cuota, cuota_red,
                   pagos, reloj>>
    /\ UNCHANGED ec_vars
    /\ UNCHANGED otras_vars
    /\ UNCHANGED bd_vars

\* ------------------------------------- calcular_cronograma, wide rationals
\* line 414: tasa_periodo = tasa_anual / 100 / frecuencia   (frecuencia # 0)
TasaPeriodoW(tasa_anual, frecuencia) == WFrac(tasa_anual, Cien * frecuencia)

\* The divisions of lines 414, 417 and 419 that divide by zero.
PotenciaPorCeroW(b, n) ==
    \/ WIsZero(b) /\ n > 0
    \/ ~(WIsZero(b) /\ n > 0)
       /\ WIsZero(WSub(WInt(1), WPowNeg(b, n)))
CuotaPorCeroW(r, n) ==
    IF WIsZero(r) THEN n = 0 ELSE PotenciaPorCeroW(WAdd(WInt(1), r), n)
DivisionPorCeroW(p) ==
    \/ p.frecuencia = 0
    \/ /\ p.frecuencia # 0
       /\ CuotaPorCeroW(TasaPeriodoW(p.tasa, p.frecuencia),
                        PagosTotales(p.plazo, p.frecuencia))

\* Mutant of CuotaW: simple interest, monto * (1 + r * n) / n.
CuotaWInteresSimple(monto, r, n) ==
    WDiv(WMul(WInt(monto), WAdd(WInt(1), WMul(r, WInt(n)))), WInt(n))
\* lines 416-419: the level payment (no division by zero).
CuotaW(monto, r, n) ==
    IF WIsZero(r) THEN WDiv(WInt(monto), WInt(n))
    ELSE WMul(WInt(monto),
              WDiv(r, WSub(WInt(1), WPowNeg(WAdd(WInt(1), r), n))))
\* line 425: interes = saldo * tasa_periodo
InteresW(s, r) == WMul(s, r)
\* line 426: amortizacion = cuota - interes
AmortizacionW(c, int) == WSub(c, int)
\* line 427: saldo = max(0, saldo - amortizacion)
MaxCeroW(d) == IF d[1] < 0 THEN WInt(0) ELSE d
SaldoW(s, am) == MaxCeroW(WSub(s, am))
\* round(x, 2) for column col of row k (see Redondeo).
RedondeoDe(r, col, k) ==
    IF k \in 1..Len(cronograma_ant) /\ cronograma_ant[k][col] \in r
    THEN {cronograma_ant[k][col]} ELSE r
RedondeoW(x, col, k) == RedondeoDe(WRound2(x), col, k)

\* Lines 413-423 (see CalcularCronograma).
CalcularCronogramaW ==
    /\ pc = "inicio"
    /\ IF DivisionPorCeroW(prestamo)
       THEN /\ \/ /\ pc' = "error"
                  /\ error' = "ZeroDivisionError"
               \/ /\ prestamo.frecuencia = 0
                     \/ PagosTotales(prestamo.plazo, prestamo.frecuencia) <= 0
                  /\ pc' = "listo"
                  /\ error' = error
            /\ UNCHANGED <<pagos_totales, tasa_periodo, cuota, cuota_red, saldo, i>>
       ELSE LET n == PagosTotales(prestamo.plazo, prestamo.frecuencia)
                r == TasaPeriodoW(prestamo.tasa, prestamo.frecuencia)
                c == CuotaW(prestamo.monto, r, n)
            IN  /\ pagos_totales' = n
                /\ tasa_periodo' = r
                /\ cuota' = c
                /\ \E c2 \in RedondeoW(c, "Cuota", 1) : cuota_red' = c2
                /\ saldo' = WInt(prestamo.monto)
                /\ i' = 1
                /\ pc' = IF UltimoPeriodo(n) >= 1 THEN "bucle" ELSE "listo"
                /\ error' = error
    /\ UNCHANGED <<prestamo, cronograma, pagos, reloj>>
    /\ UNCHANGED ec_vars
    /\ UNCHANGED otras_vars
    /\ UNCHANGED bd_vars

\* Lines 424-439 (see CronogramaPaso).
CronogramaPasoW ==
    /\ pc = "bucle"
    /\ LET interes == InteresW(saldo, tasa_periodo)
           amortizacion == AmortizacionW(cuota, interes)
           nsaldo == SaldoW(saldo, amortizacion)
           fecha_pago == FechaPago(prestamo.fecha_desembolso, i, prestamo.frecuencia)
       IN  /\ saldo' = nsaldo
           /\ \E ri \in RedondeoW(interes, "Interes", i),
                 ra \in RedondeoW(amortizacion, "Amortizacion", i),
                 rs \in RedondeoW(nsaldo, "Saldo", i) :
                cronograma' = Append(cronograma,
                    Fila(i, fecha_pago, cuota_red, ri, ra, rs))
    /\ i' = i + 1
    /\ pc' = IF i >= UltimoPeriodo(pagos_totales) THEN "listo" ELSE "bucle"
    /\ UNCHANGED <<prestamo, error, pagos_totales, tasa_periodo, cuota, cuota_red,
                   pagos, reloj>>
    /\ UNCHANGED ec_vars
    /\ UNCHANGED otras_vars
    /\ UNCHANGED bd_vars

\* ----------------------------------------------------------- estado_cuotas
\* Mutant of SumaMontos: only the last payment stored counts.
SumaMontosUltimo(ps) == IF ps = <<>> THEN 0 ELSE ps[Len(ps)].monto

\* line 447: pagos['monto'].sum() if not pagos.empty else 0
RECURSIVE SumaMontos(_)
SumaMontos(ps) ==
    IF ps = <<>> THEN 0 ELSE ps[1].monto + SumaMontos(Tail(ps))

\* Mutant of APagar: the whole cuota is applied, whatever is left of the pool.
APagarSinMin(c, restante) == c
\* line 452: a_pagar = min(cuota, restante)
APagar(c, restante) == Min(c, restante)
\* Mutant of Restante: the pool is not reduced by what was applied.
RestanteSinDescontar(restante, a_pagar) == restante
\* line 454: restante -= a_pagar
Restante(restante, a_pagar) == restante - a_pagar

\* Mutant of Pagado: the break leaves the loop after its first row.
PagadoSoloPrimera(cron, k, restante) ==
    IF k > Len(cron) THEN <<>>
    ELSE <<Min(cron[k].Cuota, restante)>> \o [j \in 1..(Len(cron) - k) |-> 0]

\* lines 446, 450-456: the column Pagado from row k on; the rows after the
\* break keep the 0.0 of line 446.
RECURSIVE Pagado(_, _, _)
Pagado(cron, k, restante) ==
    IF k > Len(cron) THEN <<>>
    ELSE LET a_pagar == APagar(cron[k].Cuota, restante)
             resto == Restante(restante, a_pagar)
         IN  IF resto <= 0
             THEN <<a_pagar>> \o [j \in 1..(Len(cron) - k) |-> 0]
             ELSE <<a_pagar>> \o Pagado(cron, k + 1, resto)

\* Mutant of Pendiente: what was paid is not subtracted.
PendienteSinPagado(c, pagado) == c
\* line 458: cronograma['Pendiente'] = cronograma['Cuota'] - cronograma['Pagado']
Pendiente(c, pagado) == c - pagado

\* Mutants of DeterminarEstado: due today counts as overdue; the pending
\* amount is not looked at.
DeterminarEstadoHoyIncluido(fecha_vencimiento, d, pendiente) ==
    IF fecha_vencimiento <= d /\ pendiente > 0 THEN "Vencida" ELSE "Al dia"
DeterminarEstadoSinPendiente(fecha_vencimiento, d, pendiente) ==
    IF fecha_vencimiento < d THEN "Vencida" ELSE "Al dia"
\* lines 461-465: determinar_estado
DeterminarEstado(fecha_vencimiento, d, pendiente) ==
    IF fecha_vencimiento < d /\ pendiente > 0 THEN "Vencida" ELSE "Al dia"

\* lines 445-469 on a table with rows.
EstadoDe(cron, total, d) ==
    LET pg == Pagado(cron, 1, total)
    IN  [k \in 1..Len(cron) |->
            LET pend == Pendiente(cron[k].Cuota, pg[k])
            IN  [Periodo |-> cron[k].Periodo, Fecha |-> cron[k].Fecha,
                 Cuota |-> cron[k].Cuota, Interes |-> cron[k].Interes,
                 Amortizacion |-> cron[k].Amortizacion, Saldo |-> cron[k].Saldo,
                 Pagado |-> pg[k], Pendiente |-> pend,
                 Estado |-> DeterminarEstado(cron[k].Fecha, d, pend)]]

\* Mutant of TablaDelLlamador: the columns are added to the argument itself.
TablaDelLlamadorSinCopia(cron, anotada) == anotada
\* line 445: cronograma = cronograma.copy().  The assignments of lines 446,
\* 453, 458 and 467 write to the copy `anotada`; the table the caller passed
\* keeps the rows `cron` it had.
TablaDelLlamador(cron, anotada) == cron

\* Lines 441-469, called on the table calcular_cronograma returned and the
\* payments of the loan (lines 797-800, 1304-1307).  pd.DataFrame([]) has no
\* column 'Cuota': line 458 raises KeyError on it, before line 459.  The
\* table pagos is only read (line 447).
EstadoCuotas ==
    /\ pc = "listo"
    /\ ec_pagos_totales' = SumaMontos(pagos)
    /\ IF cronograma = <<>>
       THEN /\ ec' = "KeyError"
            /\ estado' = <<>>
            /\ hoy' = hoy
            /\ cronograma' = cronograma
       ELSE /\ ec' = "devuelto"
            /\ hoy' = reloj
            /\ estado' = EstadoDe(cronograma, SumaMontos(pagos), reloj)
            /\ cronograma' = TablaDelLlamador(cronograma,
                                 EstadoDe(cronograma, SumaMontos(pagos), reloj))
    /\ UNCHANGED cc_locales
    /\ UNCHANGED <<pagos, reloj>>
    /\ UNCHANGED otras_vars
    /\ UNCHANGED bd_vars

\* ------------------------------------------------- calcular_totales_prestamo
RECURSIVE SumaColumna(_, _)
\* COALESCE(SUM(col), 0) over the payments of the loan (lines 345-351).
SumaColumna(ps, col) ==
    IF ps = <<>> THEN 0 ELSE ps[1][col] + SumaColumna(Tail(ps), col)
\* Lines 364-379 for a loan of the table prestamos with principal `monto`.
CalcularTotalesPrestamo(monto, ps) ==
    [capital_inicial |-> monto,
     total_pagado |-> SumaColumna(ps, "monto"),
     capital_pagado |-> SumaColumna(ps, "monto_capital"),
     interes_pagado |-> SumaColumna(ps, "monto_interes"),
     saldo_capital |-> Max(0, monto - SumaColumna(ps, "monto_capital")),
     saldo_interes |-> 0]

\* ------------------------------------------------------------ environment
\* Mutant of PagoAceptado: a payment of 0 is accepted.
PagoAceptadoCero(monto_pago) == monto_pago >= 0
\* line 1078: a monto that is not positive is answered with st.error.
PagoAceptado(monto_pago) == monto_pago > 0

\* The outcomes of the float comparison monto_interes + monto_capital ==
\* monto_pago (lines 1058, 1080) on amounts of two decimals: amounts that do
\* not add up compare unequal; amounts that add up compare equal when one of
\* them is 0, and otherwise as the rounding of the float sum falls.
SumaIgual(monto_interes, monto_capital, monto_pago) ==
    IF monto_interes + monto_capital # monto_pago THEN {FALSE}
    ELSE IF monto_interes = 0 \/ monto_capital = 0 THEN {TRUE}
    ELSE {TRUE, FALSE}
\* Mutant of DesgloseRechazado: any manual breakdown is accepted.
DesgloseSinRevisar(tipo_abono, desglose_manual, igual) == FALSE
\* line 1080: a manual breakdown that does not add up is answered with
\* st.error.
DesgloseRechazado(tipo_abono, desglose_manual, igual) ==
    tipo_abono = "ambos" /\ desglose_manual /\ ~igual

\* lines 1044-1073 and 1084-1086: the breakdown that is stored.  The two
\* number inputs exist only with "ambos" and the manual breakdown ticked.
Desglose(monto_pago, tipo_abono, desglose_manual, monto_interes, monto_capital) ==
    IF tipo_abono = "capital"
    THEN [monto_capital |-> monto_pago, monto_interes |-> 0]
    ELSE IF tipo_abono = "interes"
    THEN [monto_capital |-> 0, monto_interes |-> monto_pago]
    ELSE IF desglose_manual
    THEN [monto_capital |-> monto_capital, monto_interes |-> monto_interes]
    ELSE [monto_capital |-> 0, monto_interes |-> 0]

\* Lines 1077-1088 and agregar_pago (200-219) on the payments `tabla` of the
\* loan selected: the table after the submit.
FormPago(tabla, fecha_pago, monto_pago, tipo_abono, desglose_manual, monto_interes, monto_capital, igual) ==
    IF ~PagoAceptado(monto_pago)
       \/ DesgloseRechazado(tipo_abono, desglose_manual, igual)
    THEN tabla
    ELSE LET d == Desglose(monto_pago, tipo_abono, desglose_manual,
                           monto_interes, monto_capital)
         IN  Append(tabla,
                 [fecha_pago |-> fecha_pago, monto |-> monto_pago,
                  tipo_abono |-> tipo_abono,
                  monto_capital |-> d.monto_capital,
                  monto_interes |-> d.monto_interes])

\* The payment form submitted (lines 1075-1088).
RegistrarPago(fecha_pago, monto_pago, tipo_abono, desglose_manual, monto_interes, monto_capital) ==
    /\ Len(pagos) < MaxPagos
    /\ \E igual \in SumaIgual(monto_interes, monto_capital, monto_pago) :
           pagos' = FormPago(pagos, fecha_pago, monto_pago, tipo_abono,
                             desglose_manual, monto_interes, monto_capital, igual)
    /\ UNCHANGED cc_vars
    /\ UNCHANGED <<reloj>>
    /\ UNCHANGED ec_vars
    /\ UNCHANGED otras_vars
    /\ UNCHANGED bd_vars

\* A day passes.
PasaDia ==
    /\ reloj < MaxReloj
    /\ reloj' = reloj + 1
    /\ UNCHANGED cc_vars
    /\ UNCHANGED <<pagos>>
    /\ UNCHANGED ec_vars
    /\ UNCHANGED otras_vars
    /\ UNCHANGED bd_vars

\* The two pages that call calcular_cronograma (lines 788, 1295).
Menus == {"Detalle Cliente", "Reporte"}
\* The sidebar buttons (lines 517-526).
CambiaMenu ==
    /\ \E m \in Menus \ {menu} : menu' = m
    /\ UNCHANGED cc_vars
    /\ UNCHANGED <<pagos, reloj, cronograma_ant, pagos_b, llamadas>>
    /\ UNCHANGED ec_vars
    /\ UNCHANGED bd_vars

\* The page is rendered again: calcular_cronograma is called once more on
\* the same loan row (lines 788-795, 1295-1302), with fresh locals.  The
\* table of the earlier call is kept for comparison.
VolverACalcular ==
    /\ pc = "listo"
    /\ cronograma # <<>>
    /\ cronograma_ant = <<>>
    /\ cronograma_ant' = cronograma
    /\ pc' = "inicio"
    /\ pagos_totales' = 0
    /\ tasa_periodo' = QInt(0)
    /\ cuota' = QInt(0)
    /\ cuota_red' = 0
    /\ saldo' = QInt(0)
    /\ i' = 0
    /\ cronograma' = <<>>
    /\ UNCHANGED <<prestamo, error, pagos, reloj, menu, pagos_b, llamadas>>
    /\ UNCHANGED ec_vars
    /\ UNCHANGED bd_vars

\* The payment form on the second loan.
RegistrarPagoB(fecha_pago, monto_pago, tipo_abono, desglose_manual, monto_interes, monto_capital) ==
    /\ Len(pagos_b) < MaxPagos
    /\ \E igual \in SumaIgual(monto_interes, monto_capital, monto_pago) :
           pagos_b' = FormPago(pagos_b, fecha_pago, monto_pago, tipo_abono,
                               desglose_manual, monto_interes, monto_capital, igual)
    /\ UNCHANGED cc_vars
    /\ UNCHANGED <<pagos, reloj, cronograma_ant, menu, llamadas>>
    /\ UNCHANGED ec_vars
    /\ UNCHANGED bd_vars

\* Lines 441-469 called on the schedule and the payments of loan h (the two
\* loans have the same terms, hence the same schedule); the call is recorded
\* with its argument, the date it read and what it returned.
LlamarEstadoCuotas(h) ==
    /\ pc = "listo"
    /\ llamadas[h].ec = "sin_llamar"
    /\ LET ps == IF h = "a" THEN pagos ELSE pagos_b
       IN  /\ llamadas' = [llamadas EXCEPT ![h] =
               IF cronograma = <<>>
               THEN [ec |-> "KeyError", pagos |-> ps, hoy |-> 0, estado |-> <<>>]
               ELSE [ec |-> "devuelto", pagos |-> ps, hoy |-> reloj,
                     estado |-> EstadoDe(cronograma, SumaMontos(ps), reloj)]]
           /\ cronograma' =
                  IF cronograma = <<>> THEN cronograma
                  ELSE TablaDelLlamador(cronograma,
                           EstadoDe(cronograma, SumaMontos(ps), reloj))
    /\ UNCHANGED cc_locales
    /\ UNCHANGED <<pagos, reloj, cronograma_ant, menu, pagos_b>>
    /\ UNCHANGED ec_vars
    /\ UNCHANGED bd_vars

\* ------------------------------------------------------------------ store
RECURSIVE StripIzq(_)
StripIzq(n) == IF n # <<>> /\ n[1] = " " THEN StripIzq(Tail(n)) ELSE n
RECURSIVE StripDer(_)
StripDer(n) ==
    IF n # <<>> /\ n[Len(n)] = " " THEN StripDer(SubSeq(n, 1, Len(n) - 1)) ELSE n
\* str.strip() (lines 553, 556, 585)
Strip(n) == StripDer(StripIzq(n))

\* Mutant of NombreLibre: the column nombre has no UNIQUE constraint.
NombreLibreSiempre(tabla, nombre, salvo) == TRUE
\* line 27: nombre TEXT NOT NULL UNIQUE.  No row of the table other than
\* the row `salvo` has this nombre.
NombreLibre(tabla, nombre, salvo) ==
    \A c \in tabla : c.id # salvo => c.nombre # nombre

ClienteExiste(id) == \E c \in bd_clientes : c.id = id
PrestamoExiste(id) == \E p \in bd_prestamos : p.id = id
\* The loans obtener_prestamos returns (lines 180-184): those whose client
\* exists.
PrestamosListados == {p \in bd_prestamos : ClienteExiste(p.cliente_id)}

Llamada(fn, id, nombre, valor) ==
    [fn |-> fn, id |-> id, nombre |-> nombre, valor |-> valor]

\* Lines 552-560 and agregar_cliente (97-108): an empty name is answered
\* with st.error; the insert of a name that exists raises IntegrityError,
\* which agregar_cliente answers with False.
AgregarCliente(nombre) ==
    /\ IF Strip(nombre) = <<>>
       THEN UNCHANGED <<bd_clientes, bd_seq, retorno>>
       ELSE IF NombreLibre(bd_clientes, Strip(nombre), 0)
       THEN /\ bd_seq.clientes < MaxClientes
            /\ bd_clientes' = bd_clientes \cup
                   {[id |-> bd_seq.clientes + 1, nombre |-> Strip(nombre)]}
            /\ bd_seq' = [bd_seq EXCEPT !.clientes = @ + 1]
            /\ retorno' = Llamada("agregar_cliente", 0, Strip(nombre), "True")
       ELSE /\ retorno' = Llamada("agregar_cliente", 0, Strip(nombre), "False")
            /\ UNCHANGED <<bd_clientes, bd_seq>>
    /\ UNCHANGED <<tipo_amortizacion, bd_prestamos, bd_pagos, foreign_keys>>
    /\ UNCHANGED cc_vars
    /\ UNCHANGED <<pagos, reloj>>
    /\ UNCHANGED ec_vars
    /\ UNCHANGED otras_vars

\* Lines 581-587 and modificar_cliente (110-118) on a client of the
\* selectbox: the UPDATE to a name another row has raises IntegrityError,
\* which nothing catches.
ModificarCliente(id_cliente, nombre) ==
    /\ ClienteExiste(id_cliente)
    /\ IF NombreLibre(bd_clientes, Strip(nombre), id_cliente)
       THEN /\ bd_clientes' =
                   {IF c.id = id_cliente THEN [c EXCEPT !.nombre = Strip(nombre)]
                    ELSE c : c \in bd_clientes}
            /\ retorno' =
                   Llamada("modificar_cliente", id_cliente, Strip(nombre), "None")
       ELSE /\ retorno' =
                   Llamada("modificar_cliente", id_cliente, Strip(nombre),
                           "IntegrityError")
            /\ UNCHANGED bd_clientes
    /\ UNCHANGED <<tipo_amortizacion, bd_prestamos, bd_pagos, bd_seq, foreign_keys>>
    /\ UNCHANGED cc_vars
    /\ UNCHANGED <<pagos, reloj>>
    /\ UNCHANGED ec_vars
    /\ UNCHANGED otras_vars

\* Lines 609-611 and eliminar_cliente (120-125) on a client of the
\* selectbox: DELETE FROM clientes WHERE id=?.  get_conn (14-17) does not
\* set PRAGMA foreign_keys, so the constraint of line 43 is enforced only by
\* a library built to enforce it; the delete of a client with loans then
\* raises IntegrityError.  No statement deletes from prestamos or pagos.
EliminarCliente(id_cliente) ==
    /\ ClienteExiste(id_cliente)
    /\ IF foreign_keys /\ \E p \in bd_prestamos : p.cliente_id = id_cliente
       THEN /\ retorno' =
                   Llamada("eliminar_cliente", id_cliente, <<>>, "IntegrityError")
            /\ UNCHANGED bd_clientes
       ELSE /\ bd_clientes' = {c \in bd_clientes : c.id # id_cliente}
            /\ retorno' = Llamada("eliminar_cliente", id_cliente, <<>>, "None")
    /\ UNCHANGED <<tipo_amortizacion, bd_prestamos, bd_pagos, bd_seq, foreign_keys>>
    /\ UNCHANGED cc_vars
    /\ UNCHANGED <<pagos, reloj>>
    /\ UNCHANGED ec_vars
    /\ UNCHANGED otras_vars

\* Lines 929-944 and agregar_prestamo (133-156) for a client of the
\* selectbox (line 884): a monto that is not positive is answered with
\* st.error.  (The guarantor fields are not modelled.)
AgregarPrestamo(cliente_id, monto) ==
    /\ bd_seq.prestamos < MaxPrestamos
    /\ ClienteExiste(cliente_id)
    /\ IF monto <= 0
       THEN UNCHANGED <<bd_prestamos, bd_seq, retorno>>
       ELSE /\ bd_prestamos' = bd_prestamos \cup
                   {[id |-> bd_seq.prestamos + 1, cliente_id |-> cliente_id,
                     monto |-> monto]}
            /\ bd_seq' = [bd_seq EXCEPT !.prestamos = @ + 1]
            /\ retorno' = Llamada("agregar_prestamo", cliente_id, <<>>, "None")
    /\ UNCHANGED <<tipo_amortizacion, bd_clientes, bd_pagos, foreign_keys>>
    /\ UNCHANGED cc_vars
    /\ UNCHANGED <<pagos, reloj>>
    /\ UNCHANGED ec_vars
    /\ UNCHANGED otras_vars

\* Lines 1008-1023 and 1077-1088 with agregar_pago (200-219): the payment
\* form on a loan of the selectbox, which offers the loans obtener_prestamos
\* returns.
AgregarPago(prestamo_id, fecha_pago, monto_pago, tipo_abono, desglose_manual, monto_interes, monto_capital) ==
    /\ \E p \in PrestamosListados : p.id = prestamo_id
    /\ Len(bd_pagos[prestamo_id]) < MaxPagos
    /\ \E igual \in SumaIgual(monto_interes, monto_capital, monto_pago) :
           bd_pagos' = [bd_pagos EXCEPT ![prestamo_id] =
               FormPago(@, fecha_pago, monto_pago, tipo_abono, desglose_manual,
                        monto_interes, monto_capital, igual)]
    /\ retorno' = IF bd_pagos' = bd_pagos THEN retorno
                  ELSE Llamada("agregar_pago", prestamo_id, <<>>, "None")
    /\ UNCHANGED <<tipo_amortizacion, bd_clientes, bd_prestamos, bd_seq, foreign_keys>>
    /\ UNCHANGED cc_vars
    /\ UNCHANGED <<pagos, reloj>>
    /\ UNCHANGED ec_vars
    /\ UNCHANGED otras_vars

\* ----------------------------------------------------------- specification
\* The loans the loan form stores (lines 885-892, 930-931).
PrestamosFormulario ==
    [monto : {m \in Montos : m > 0}, tasa : Tasas, plazo : Plazos,
     frecuencia : Frecuencias, fecha_desembolso : Fechas]
\* The arguments of a direct call.
PrestamosLlamada ==
    [monto : MontosLlamada, tasa : TasasLlamada, plazo : PlazosLlamada,
     frecuencia : FrecuenciasLlamada, fecha_desembolso : Fechas]

\* The zero-rate scenario: 1000.00 over 12 monthly payments.
PrestamosEjemplo ==
    {[monto |-> 100000, tasa |-> 0, plazo |-> 12, frecuencia |-> 12,
      fecha_desembolso |-> 0]}

\* No call of estado_cuotas recorded.
SinLlamar == [ec |-> "sin_llamar", pagos |-> <<>>, hoy |-> 0, estado |-> <<>>]

\* The engine before any call, on a loan of `prestamos`, on day `dia`.
InitMotor(prestamos, dia) ==
    /\ prestamo \in prestamos
    /\ pc = "inicio"
    /\ error = "ninguno"
    /\ pagos_totales = 0
    /\ tasa_periodo = QInt(0)
    /\ cuota = QInt(0)
    /\ cuota_red = 0
    /\ saldo = QInt(0)
    /\ i = 0
    /\ cronograma = <<>>
    /\ pagos = <<>>
    /\ reloj = dia
    /\ ec = "sin_llamar"
    /\ ec_pagos_totales = 0
    /\ hoy = 0
    /\ estado = <<>>
    /\ cronograma_ant = <<>>
    /\ menu = "Detalle Cliente"
    /\ pagos_b = <<>>
    /\ llamadas = [h \in {"a", "b"} |-> SinLlamar]
\* The store after init_db (lines 19-95) on a new file: empty tables.  The
\* loan row has a tipo_amortizacion of `tipos`.
InitTienda(tipos, fks) ==
    /\ tipo_amortizacion \in tipos
    /\ bd_clientes = {}
    /\ bd_prestamos = {}
    /\ bd_pagos = [id \in 1..MaxPrestamos |-> <<>>]
    /\ bd_seq = [clientes |-> 0, prestamos |-> 0]
    /\ foreign_keys \in fks
    /\ retorno = Llamada("ninguna", 0, <<>>, "None")
\* The column default of line 64 and a library that does not enforce
\* foreign keys.
InitDesde(prestamos, dia) ==
    /\ InitMotor(prestamos, dia)
    /\ InitTienda({"capital_interes"}, {FALSE})
InitCon(prestamos) == InitDesde(prestamos, RelojInicial)

Init == InitCon(PrestamosFormulario \cup PrestamosEjemplo)
InitLlamada == InitCon(PrestamosLlamada)

Next ==
    \/ CalcularCronograma
    \/ CronogramaPaso
    \/ EstadoCuotas
    \/ \E m \in MontosPago : RegistrarPago(reloj, m, "ambos", FALSE, 0, 0)
    \/ PasaDia

Spec == Init /\ [][Next]_vars
SpecLlamada == InitLlamada /\ [][Next]_vars

\* The same loan computed twice, while payments are stored, the page changes
\* and days pass.
NextRecalculo ==
    \/ CalcularCronograma
    \/ CronogramaPaso
    \/ VolverACalcular
    \/ \E m \in MontosPago : RegistrarPago(reloj, m, "ambos", FALSE, 0, 0)
    \/ CambiaMenu
    \/ PasaDia
SpecRecalculo == Init /\ [][NextRecalculo]_vars

\* Two loans with the same terms, each with its own payments; estado_cuotas
\* is called once on each, on either day around the last due date.
PrestamosDos ==
    [monto : {100}, tasa : {0, 120}, plazo : {MaxPlazo}, frecuencia : {12},
     fecha_desembolso : {0}]
InitDos == InitDesde(PrestamosDos, MaxReloj - 1)
NextDos ==
    \/ CalcularCronograma
    \/ CronogramaPaso
    \/ \E m \in MontosPago : RegistrarPago(reloj, m, "ambos", FALSE, 0, 0)
    \/ \E m \in MontosPago : RegistrarPagoB(reloj, m, "ambos", FALSE, 0, 0)
    \/ \E h \in {"a", "b"} : LlamarEstadoCuotas(h)
    \/ PasaDia
SpecDos == InitDos /\ [][NextDos]_vars

\* The worked example, 1200.00 at 12% a year over 12 monthly payments, and
\* the loans of the loan form, computed in wide rationals.
PrestamosAncho ==
    {[monto |-> 120000, tasa |-> 12, plazo |-> 12, frecuencia |-> 12,
      fecha_desembolso |-> 0]}
InitAncho == InitDesde(PrestamosFormulario \cup PrestamosAncho, RelojInicial)
NextAncho ==
    \/ CalcularCronogramaW
    \/ CronogramaPasoW
    \/ EstadoCuotas
SpecAncho == InitAncho /\ [][NextAncho]_vars

\* The payment form with every type of payment and breakdown, on a loan of
\* 1.00; the amounts typed for interest and capital are those of MontosPago.
InitPagos == InitDesde(PrestamosDos, RelojInicial)
NextPagos ==
    \/ CalcularCronograma
    \/ CronogramaPaso
    \/ EstadoCuotas
    \/ \E m \in MontosPago, t \in TiposAbono, dm \in BOOLEAN,
          mi \in MontosPago, mc \in MontosPago :
           RegistrarPago(reloj, m, t, dm, mi, mc)
    \/ PasaDia
SpecPagos == InitPagos /\ [][NextPagos]_vars

\* Loans of either type of amortization.
InitTipo ==
    /\ InitMotor(PrestamosDos, RelojInicial)
    /\ InitTienda(TiposAmortizacion, {FALSE})
NextTipo ==
    \/ CalcularCronograma
    \/ CronogramaPaso
    \/ EstadoCuotas
    \/ \E m \in MontosPago : RegistrarPago(reloj, m, "ambos", FALSE, 0, 0)
    \/ PasaDia
SpecTipo == InitTipo /\ [][NextTipo]_vars

\* The forms of the pages Clientes, Préstamos and Pagos on the store.
InitBD ==
    /\ InitMotor(PrestamosEjemplo, RelojInicial)
    /\ InitTienda({"capital_interes"}, BOOLEAN)
NextBD ==
    \/ \E n \in Nombres : AgregarCliente(n)
    \/ \E id \in 1..MaxClientes, n \in Nombres : ModificarCliente(id, n)
    \/ \E id \in 1..MaxClientes : EliminarCliente(id)
    \/ \E id \in 1..MaxClientes, m \in {0, 100} : AgregarPrestamo(id, m)
    \/ \E id \in 1..MaxPrestamos, m \in MontosPago :
           AgregarPago(id, reloj, m, "ambos", FALSE, 0, 0)
SpecBD == InitBD /\ [][NextBD]_vars

\* Loans of one and two years at every frequency of the form, beside the
\* loans of the loan form.
PrestamosAnio ==
    [monto : {1200}, tasa : {0}, plazo : {MesesPorAnio, 2 * MesesPorAnio},
     frecuencia : Frecuencias, fecha_desembolso : Fechas]
InitAnio == InitCon(PrestamosFormulario \cup PrestamosAnio)
NextAnio ==
    \/ CalcularCronograma
    \/ CronogramaPaso
    \/ EstadoCuotas
    \/ PasaDia
SpecAnio == InitAnio /\ [][NextAnio]_vars

\* ------------------------------------------------------------------ claims
RECURSIVE SumaCuotas(_, _)
SumaCuotas(rows, k) == IF k = 0 THEN 0 ELSE rows[k].Cuota + SumaCuotas(rows, k - 1)
RECURSIVE SumaPagado(_, _)
SumaPagado(rows, k) == IF k = 0 THEN 0 ELSE rows[k].Pagado + SumaPagado(rows, k - 1)
Filas == 1..Len(estado)

\* C1: estado_cuotas allocates the pool as a waterfall in schedule order:
\* installment k of the schedule it was given is paid
\* min(Cuota_k, max(0, pool - sum of the Cuota before k)).
C1_Cascada ==
    ec = "devuelto" =>
        /\ Len(estado) = Len(cronograma)
        /\ \A k \in Filas :
            /\ estado[k].Cuota = cronograma[k].Cuota
            /\ estado[k].Pagado =
                 Min(estado[k].Cuota,
                     Max(0, ec_pagos_totales - SumaCuotas(estado, k - 1)))
\* Three installments of 100 and a pool of 150: paid 100, 50, 0.
C1_Testigo ==
    /\ ec = "devuelto"
    /\ Len(estado) = 3
    /\ \A k \in Filas : estado[k].Cuota = 100
    /\ ec_pagos_totales = 150
    /\ estado[1].Pagado = 100 /\ estado[2].Pagado = 50 /\ estado[3].Pagado = 0
    /\ estado[1].Pendiente = 0 /\ estado[2].Pendiente = 50
    /\ estado[3].Pendiente = 100

\* C2: conservation: the Pagado of all installments add up to
\* min(sum of the payments, sum of the Cuota).
C2_Conservacion ==
    ec = "devuelto" =>
        SumaPagado(estado, Len(estado)) =
            Min(ec_pagos_totales, SumaCuotas(estado, Len(estado)))
\* A pool larger than the whole value of a schedule of several installments:
\* every installment is paid in full and the rest of the pool is left over.
C2_Testigo ==
    /\ ec = "devuelto"
    /\ SumaCuotas(estado, Len(estado)) > 0
    /\ ec_pagos_totales > SumaCuotas(estado, Len(estado))
    /\ SumaPagado(estado, Len(estado)) = SumaCuotas(estado, Len(estado))
    /\ Len(estado) >= 2

\* C3: allocation is monotonic left to right: an installment with Pagado > 0
\* has every earlier installment fully paid, at most one installment is
\* partially paid, and every installment after it has Pagado = 0.
Parcial(k) == 0 < estado[k].Pagado /\ estado[k].Pagado < estado[k].Cuota
C3_Monotona ==
    ec = "devuelto" =>
        /\ \A k \in Filas : estado[k].Pagado > 0 =>
               \A j \in 1..(k - 1) : estado[j].Pendiente = 0
        /\ \A j, k \in Filas : (j < k /\ Parcial(j)) => estado[k].Pagado = 0
        /\ Cardinality({k \in Filas : Parcial(k)}) <= 1
\* A partially paid installment with a paid one before and an unpaid one after.
C3_Testigo ==
    /\ ec = "devuelto"
    /\ \E k \in Filas :
        /\ Parcial(k)
        /\ k > 1 /\ estado[k - 1].Pendiente = 0 /\ estado[k - 1].Pagado > 0
        /\ k < Len(estado) /\ estado[k + 1].Pagado = 0

\* C4: in every installment returned 0 <= Pagado <= Cuota and
\* Pendiente = Cuota - Pagado; an installment the walk never reaches (the pool
\* was used up before it) has Pagado = 0 and Pendiente = Cuota.
NoAlcanzada(k) == k > 1 /\ ec_pagos_totales <= SumaCuotas(estado, k - 1)
C4_Rangos ==
    ec = "devuelto" =>
        \A k \in Filas :
            /\ 0 <= estado[k].Pagado
            /\ estado[k].Pagado <= estado[k].Cuota
            /\ estado[k].Pendiente = estado[k].Cuota - estado[k].Pagado
            /\ NoAlcanzada(k) =>
                   estado[k].Pagado = 0 /\ estado[k].Pendiente = estado[k].Cuota
\* A walk that stopped early: a paid installment and, after the break, one
\* that is still pending in full.
C4_Testigo ==
    /\ ec = "devuelto"
    /\ ec_pagos_totales > 0
    /\ \E k \in Filas :
        /\ NoAlcanzada(k)
        /\ estado[k].Cuota > 0
        /\ estado[k].Pendiente = estado[k].Cuota
        /\ estado[1].Pagado > 0

GraciaObservada == {0, 3}
C6_PagadaNoVence ==
    ec = "devuelto" =>
        \A k \in Filas :
            /\ estado[k].Estado = "Vencida" => estado[k].Pendiente > 0
            /\ (estado[k].Pendiente = 0 /\ estado[k].Fecha < hoy) =>
                   estado[k].Estado = "Al dia"
\* A fully paid installment whose due date has passed, next to an overdue one.
C6_Testigo ==
    /\ ec = "devuelto"
    /\ \E j, k \in Filas :
        /\ estado[j].Cuota > 0 /\ estado[j].Pendiente = 0
        /\ estado[j].Fecha < hoy /\ estado[j].Estado = "Al dia"
        /\ estado[k].Estado = "Vencida"

\* C7 (as claimed): when floor(plazo * frecuencia / 12) = 0 calcular_cronograma
\* ends with a dedicated InvalidTermError: never a division by zero, never an
\* empty table.
C7_InvalidTermError ==
    (pc \in {"listo", "error"}
        /\ (prestamo.plazo * prestamo.frecuencia) \div MesesPorAnio = 0) =>
    (pc = "error" /\ error = "InvalidTermError")

\* C8 (as claimed): malformed terms (principal <= 0, rate < 0, plazo <= 0 or
\* frecuencia <= 0) are rejected with InvalidInputError before any
\* computation: no row is ever produced for them.
Malformado(p) ==
    p.monto <= 0 \/ p.tasa < 0 \/ p.plazo <= 0 \/ p.frecuencia <= 0
C8_InvalidInputError ==
    Malformado(prestamo) =>
        /\ cronograma = <<>>
        /\ pc # "bucle"
        /\ pc \in {"listo", "error"} =>
               (pc = "error" /\ error = "InvalidInputError")

\* C9: the schedule returned has exactly floor(plazo * frecuencia / 12) rows,
\* with Periodo 1, 2, ..., N in that order.
C9_Periodos ==
    pc = "listo" =>
        /\ Len(cronograma) = (prestamo.plazo * prestamo.frecuencia) \div MesesPorAnio
        /\ \A k \in 1..Len(cronograma) : cronograma[k].Periodo = k
\* A monthly schedule of three rows.
C9_Testigo ==
    /\ pc = "listo"
    /\ Len(cronograma) = 3
    /\ prestamo.frecuencia = 12
    /\ cronograma[3].Periodo = 3

\* C10: the reported Saldo is never negative, never above the principal, and
\* does not increase from an installment to the next.
C10_Saldo ==
    \A k \in 1..Len(cronograma) :
        /\ 0 <= cronograma[k].Saldo
        /\ cronograma[k].Saldo <= prestamo.monto
        /\ k > 1 => cronograma[k].Saldo <= cronograma[k - 1].Saldo
\* A schedule with interest whose balance falls at every installment to 0.
C10_Testigo ==
    /\ pc = "listo"
    /\ prestamo.tasa > 0
    /\ Len(cronograma) = 3
    /\ cronograma[1].Saldo < prestamo.monto
    /\ cronograma[2].Saldo < cronograma[1].Saldo
    /\ cronograma[3].Saldo < cronograma[2].Saldo
    /\ cronograma[3].Saldo = 0

RECURSIVE SumaAmortizacion(_, _)
SumaAmortizacion(rows, k) ==
    IF k = 0 THEN 0 ELSE rows[k].Amortizacion + SumaAmortizacion(rows, k - 1)
Filas_cc == 1..Len(cronograma)

\* C11: the Saldo of the last installment is 0 and the principal portions
\* add up to the principal, both within 0.01 x totalPayments (1 cent per
\* installment).
C11_Amortizado ==
    (pc = "listo" /\ cronograma # <<>>) =>
        LET n == Len(cronograma)
        IN  /\ Abs(cronograma[n].Saldo) <= n
            /\ Abs(SumaAmortizacion(cronograma, n) - prestamo.monto) <= n
\* A loan with interest amortized to 0 whose rounded principal portions do
\* not add up to the principal exactly.
C11_Testigo ==
    /\ pc = "listo"
    /\ prestamo.tasa > 0
    /\ Len(cronograma) = 3
    /\ cronograma[3].Saldo = 0
    /\ SumaAmortizacion(cronograma, 3) # prestamo.monto

C13_TasaCero ==
    prestamo.tasa = 0 =>
        \A k \in Filas_cc :
            /\ cronograma[k].Interes = 0
            /\ Abs(cronograma[k].Cuota * pagos_totales - prestamo.monto)
                   <= pagos_totales
\* 1000.00 over 12 monthly payments: 12 installments of 83.33, no interest.
C13_Testigo ==
    /\ pc = "listo"
    /\ prestamo.monto = 100000 /\ prestamo.tasa = 0
    /\ prestamo.plazo = 12 /\ prestamo.frecuencia = 12
    /\ Len(cronograma) = 12
    /\ \A k \in Filas_cc : cronograma[k].Cuota = 8333 /\ cronograma[k].Interes = 0

\* C17: for an empty schedule the allocator returns an empty annotated
\* sequence and raises no error.
C17_CronogramaVacio ==
    (pc = "listo" /\ cronograma = <<>> /\ ec # "sin_llamar") =>
        (ec = "devuelto" /\ estado = <<>>)

\* max(0, x) on an exact value.
NoNegativo(x) == IF QLess(x, QInt(0)) THEN QInt(0) ELSE x

\* C19: in every period the interest is the balance before the period times
\* the period rate, the principal portion is the payment minus that interest,
\* the new balance is max(0, previous balance - principal portion), and the
\* row reports Interes + Amortizacion = Cuota up to 0.01.
C19_Periodo ==
    [][Len(cronograma') = Len(cronograma) + 1 =>
        LET int == QMul(saldo, tasa_periodo)
            am == QSub(cuota, int)
            fila == cronograma'[Len(cronograma')]
        IN  /\ fila.Interes \in Round2(int)
            /\ fila.Amortizacion \in Round2(am)
            /\ saldo' = NoNegativo(QSub(saldo, am))
            /\ fila.Saldo \in Round2(saldo')
            /\ Abs(fila.Interes + fila.Amortizacion - fila.Cuota) <= 1
      ]_vars
\* A schedule of several rows, one of them with interest and a principal
\* portion whose roundings miss the rounded payment by a cent.
C19_Testigo ==
    /\ Len(cronograma) >= 2
    /\ \E k \in Filas_cc :
        /\ cronograma[k].Interes > 0
        /\ cronograma[k].Amortizacion > 0
        /\ Abs(cronograma[k].Interes + cronograma[k].Amortizacion
               - cronograma[k].Cuota) = 1

\* The balances before period 1 and after periods 1..k when nothing is
\* rounded on the way: element j + 1 is the balance after j periods.
RECURSIVE SaldosSinRedondear(_)
SaldosSinRedondear(k) ==
    IF k = 0 THEN <<QInt(prestamo.monto)>>
    ELSE LET antes == SaldosSinRedondear(k - 1)
             s == antes[k]
         IN  Append(antes, NoNegativo(QSub(s, QSub(cuota, QMul(s, tasa_periodo)))))

\* C20 (as stated): every intermediate value is rounded to 2 decimals before
\* the next period: the balance carried into period i+1 is exactly the Saldo
\* reported in row i and the payment used is the reported Cuota.
C20_Original ==
    (pc \in {"bucle", "listo"} /\ cronograma # <<>>) =>
        /\ saldo = QInt(cronograma[Len(cronograma)].Saldo)
        /\ cuota = QInt(cuota_red)
\* C20 (amended): only the reported values are rounded.  At every step that
\* appends a row, the balance carried into the period is the unrounded
\* balance of the periods before, the payment carried is the unrounded one
\* (reported rounded), the reported Interes and Saldo are the roundings of
\* values computed from the unrounded balance, and after the last period
\* nothing is left of the balance: no rounding error has accumulated.
C20_SoloSalidaRedondeada ==
    [][Len(cronograma') = Len(cronograma) + 1 =>
        LET n == Len(cronograma)
            ss == SaldosSinRedondear(n + 1)
            fila == cronograma'[n + 1]
        IN  /\ saldo = ss[n + 1]
            /\ saldo' = ss[n + 2]
            /\ cuota' = cuota
            /\ cuota_red \in Round2(cuota)
            /\ fila.Cuota = cuota_red
            /\ fila.Interes \in Round2(QMul(ss[n + 1], tasa_periodo))
            /\ fila.Saldo \in Round2(ss[n + 2])
            /\ pc' = "listo" => QIsZero(saldo')
      ]_vars
\* A balance carried into the next period that is not a whole number of
\* cents, reported rounded in the row just appended.
C20_Testigo ==
    /\ pc = "bucle"
    /\ cronograma # <<>>
    /\ saldo[2] > 1
    /\ cuota[2] > 1
    /\ prestamo.tasa > 0
    /\ cronograma[Len(cronograma)].Saldo \in Round2(saldo)

RECURSIVE TotalPagos(_, _)
TotalPagos(ps, k) == IF k = 0 THEN 0 ELSE ps[k].monto + TotalPagos(ps, k - 1)
MismoTotal ==
    TotalPagos(llamadas["a"].pagos, Len(llamadas["a"].pagos))
        = TotalPagos(llamadas["b"].pagos, Len(llamadas["b"].pagos))
DosDevueltas == llamadas["a"].ec = "devuelto" /\ llamadas["b"].ec = "devuelto"
FilasDos == 1..Len(llamadas["a"].estado)
Columna(h, col) == [k \in 1..Len(llamadas[h].estado) |-> llamadas[h].estado[k][col]]

EsEjemplo ==
    /\ prestamo.monto = 120000 /\ prestamo.tasa = 12
    /\ prestamo.plazo = 12 /\ prestamo.frecuencia = 12

\* C14: 1200.00 at 12% a year over 12 months with 12 payments a year: the
\* period rate is 0.01, Cuota is 106.62 in every row and the first row has
\* Interes 12.00 and Amortizacion 94.62.
C14_Ejemplo ==
    (EsEjemplo /\ pc # "inicio") =>
        /\ pc \in {"bucle", "listo"}
        /\ WEq(tasa_periodo, WFrac(1, 100))
        /\ pc = "listo" => Len(cronograma) = 12
        /\ \A k \in Filas_cc : cronograma[k].Cuota = 10662
        /\ cronograma # <<>> =>
               (cronograma[1].Interes = 1200 /\ cronograma[1].Amortizacion = 9462)
\* The finished schedule of the example.
C14_Testigo ==
    /\ EsEjemplo
    /\ pc = "listo"
    /\ Len(cronograma) = 12
    /\ \A k \in Filas_cc : cronograma[k].Cuota = 10662
    /\ cronograma[1].Interes = 1200
    /\ cronograma[1].Amortizacion = 9462
    /\ cronograma[12].Saldo = 0

\* C21: one due-date policy for every installment: period k is due
\* floor(k * 365 / frecuencia) days after the disbursement; the due dates
\* grow strictly with the period, and the installment that closes year y of
\* the term is due exactly 365 * y days after the disbursement.
C21_UnaPolitica ==
    \A k \in Filas_cc :
        /\ cronograma[k].Periodo = k
        /\ cronograma[k].Fecha =
               prestamo.fecha_desembolso + (k * DiasPorAnio) \div prestamo.frecuencia
        /\ k > 1 => cronograma[k].Fecha > cronograma[k - 1].Fecha
        /\ \A y \in 1..2 :
               k = prestamo.frecuencia * y =>
                   cronograma[k].Fecha = prestamo.fecha_desembolso + DiasPorAnio * y
\* A quarterly loan of two years, disbursed on day 60, with both year-closing
\* installments in its schedule.
C21_Testigo ==
    /\ pc = "listo"
    /\ prestamo.frecuencia = 4
    /\ prestamo.fecha_desembolso = 60
    /\ Len(cronograma) = 8
    /\ cronograma[1].Fecha = 60 + 91
    /\ cronograma[4].Fecha = 60 + DiasPorAnio
    /\ cronograma[8].Fecha = 60 + 2 * DiasPorAnio

ColumnasCronograma ==
    {"Periodo", "Fecha", "Cuota", "Interes", "Amortizacion", "Saldo"}
ColumnasEstado == ColumnasCronograma \cup {"Pagado", "Pendiente", "Estado"}

\* C22: a call of estado_cuotas leaves the schedule and the payments of the
\* caller as they were (no column is added to the schedule passed in), and
\* what it returns has the same rows in the same order, the six columns of
\* the schedule unchanged, with Pagado, Pendiente and Estado added.
C22_SinEfectos ==
    [][ec_vars' # ec_vars =>
        /\ cronograma' = cronograma
        /\ pagos' = pagos
        /\ \A k \in 1..Len(cronograma') :
               DOMAIN cronograma'[k] = ColumnasCronograma
        /\ ec' = "devuelto" =>
               /\ Len(estado') = Len(cronograma)
               /\ \A k \in 1..Len(cronograma) :
                      /\ DOMAIN estado'[k] = ColumnasEstado
                      /\ \A col \in ColumnasCronograma :
                             estado'[k][col] = cronograma[k][col]
      ]_vars
\* estado_cuotas returned three annotated rows, with payments stored, and the
\* schedule of the caller still has its six columns.
C22_Testigo ==
    /\ ec = "devuelto"
    /\ Len(estado) = 3
    /\ Len(cronograma) = 3
    /\ Len(pagos) = 2
    /\ estado[1].Pagado > 0
    /\ estado[1].Estado = "Vencida"
    /\ DOMAIN estado[1] = ColumnasEstado
    /\ DOMAIN cronograma[1] = ColumnasCronograma

\* C23: every payment stored through the payment form has monto > 0, so the
\* pool estado_cuotas computes is never negative and no installment gets a
\* negative Pagado.
C23_PagosPositivos ==
    /\ \A k \in 1..Len(pagos) : pagos[k].monto > 0
    /\ SumaMontos(pagos) >= 0
    /\ ec = "devuelto" =>
           /\ ec_pagos_totales >= 0
           /\ \A k \in 1..Len(estado) : estado[k].Pagado >= 0
\* Two payments are stored and estado_cuotas has allocated their total.
C23_Testigo ==
    /\ Len(pagos) = 2
    /\ pagos[1].monto = 50 /\ pagos[2].monto = 100
    /\ ec = "devuelto"
    /\ ec_pagos_totales = 150
    /\ estado[1].Pagado > 0
    /\ estado[2].Pagado > 0

Totales == CalcularTotalesPrestamo(prestamo.monto, pagos)
\* C30: every payment stored through the payment form has monto_capital >= 0
\* and monto_interes >= 0, adding up to monto (manual breakdown, capital
\* only, interest only) or both 0 (automatic "ambos"); hence the capital paid
\* never exceeds the total paid, and the saldo_capital reported is not
\* negative.
C30_Desglose ==
    /\ \A k \in 1..Len(pagos) :
           /\ pagos[k].monto_capital >= 0
           /\ pagos[k].monto_interes >= 0
           /\ \/ pagos[k].monto_capital + pagos[k].monto_interes = pagos[k].monto
              \/ /\ pagos[k].tipo_abono = "ambos"
                 /\ pagos[k].monto_capital = 0
                 /\ pagos[k].monto_interes = 0
           /\ pagos[k].tipo_abono = "capital" => pagos[k].monto_capital = pagos[k].monto
           /\ pagos[k].tipo_abono = "interes" => pagos[k].monto_interes = pagos[k].monto
    /\ Totales.capital_pagado <= Totales.total_pagado
    /\ Totales.capital_pagado + Totales.interes_pagado <= Totales.total_pagado
    /\ Totales.saldo_capital >= 0
    /\ Totales.saldo_capital <= Totales.capital_inicial
\* A manual breakdown of 50 + 50 and a payment to capital are stored: the
\* capital paid, 1.50, exceeds the 1.00 lent and the saldo_capital is 0.
C30_Testigo ==
    /\ Len(pagos) = 2
    /\ pagos[1].tipo_abono = "ambos"
    /\ pagos[1].monto = 100
    /\ pagos[1].monto_capital = 50 /\ pagos[1].monto_interes = 50
    /\ pagos[2].tipo_abono = "capital"
    /\ pagos[2].monto_capital = 100
    /\ Totales.capital_pagado = 150
    /\ Totales.saldo_capital = 0

\* C24: a loan of type solo_interes has installments of interest only, and
\* its capital is paid at the end of the term: every installment before the
\* last has Amortizacion 0 and leaves the Saldo at the principal; a loan of
\* type capital_interes amortizes capital in every installment.
C24_SoloInteres ==
    pc = "listo" =>
        /\ tipo_amortizacion = "solo_interes" =>
               \A k \in 1..(Len(cronograma) - 1) :
                   /\ cronograma[k].Amortizacion = 0
                   /\ cronograma[k].Saldo = prestamo.monto
        /\ tipo_amortizacion = "capital_interes" =>
               \A k \in Filas_cc : cronograma[k].Amortizacion > 0

\* C25: every row of prestamos has the cliente_id of a row of clientes, and
\* every row of pagos has the prestamo_id of a row of prestamos.
C25_Integridad ==
    /\ \A p \in bd_prestamos : ClienteExiste(p.cliente_id)
    /\ \A id \in DOMAIN bd_pagos : bd_pagos[id] # <<>> => PrestamoExiste(id)

NombresUnicos ==
    \A c1 \in bd_clientes, c2 \in bd_clientes :
        (c1.nombre = c2.nombre \/ c1.id = c2.id) => c1 = c2
\* C26: no two rows of clientes have the same nombre; agregar_cliente with a
\* nombre that exists returns False and leaves the table as it was, and with
\* a new nombre returns True and adds exactly one row.
C26_NombreUnico ==
    /\ []NombresUnicos
    /\ [][(retorno' # retorno /\ retorno'.fn = "agregar_cliente") =>
            IF \E c \in bd_clientes : c.nombre = retorno'.nombre
            THEN /\ retorno'.valor = "False"
                 /\ bd_clientes' = bd_clientes
            ELSE /\ retorno'.valor = "True"
                 /\ bd_clientes \subseteq bd_clientes'
                 /\ Cardinality(bd_clientes') = Cardinality(bd_clientes) + 1
                 /\ \E c \in bd_clientes' \ bd_clientes :
                        c.nombre = retorno'.nombre
         ]_vars
\* agregar_cliente has just returned False for the name of the second of two
\* clients.
C26_Testigo ==
    /\ retorno = Llamada("agregar_cliente", 0, <<"a">>, "False")
    /\ Cardinality(bd_clientes) = 2
    /\ \E c \in bd_clientes : c.id = 2 /\ c.nombre = <<"a">>
    /\ \E c \in bd_clientes : c.id = 1 /\ c.nombre = <<"b">>

\* C27 (as claimed): every loan the loan form stores has
\* floor(plazo * frecuencia / 12) >= 1, and calcular_cronograma on it never
\* raises and returns a table with at least one installment.
C27_AlMenosUnaCuota ==
    pc # "inicio" =>
        /\ PagosTotales(prestamo.plazo, prestamo.frecuencia) >= 1
        /\ pc # "error"
        /\ pc = "listo" => Len(cronograma) >= 1

\* The payments of call x are the first payments of call y: the payments
\* stored between two recomputations are appended (lines 207-212), none is
\* changed or removed.
PagosAgregados(x, y) ==
    /\ Len(llamadas[x].pagos) <= Len(llamadas[y].pagos)
    /\ SubSeq(llamadas[y].pagos, 1, Len(llamadas[x].pagos)) = llamadas[x].pagos
Vencidas(h) ==
    {k \in 1..Len(llamadas[h].estado) : llamadas[h].estado[k].Estado = "Vencida"}

\* C28: on the same schedule and the same day, a recomputation of
\* estado_cuotas made after more payments were stored has in every
\* installment a Pagado not lower and a Pendiente not higher than the one
\* before; no installment goes from Al dia to Vencida and the number of
\* Vencida installments does not grow.
C28_PagarNoEmpeora ==
    \A x \in {"a", "b"}, y \in {"a", "b"} :
        (/\ llamadas[x].ec = "devuelto" /\ llamadas[y].ec = "devuelto"
         /\ llamadas[x].hoy = llamadas[y].hoy
         /\ PagosAgregados(x, y)) =>
            /\ \A k \in 1..Len(llamadas[x].estado) :
                /\ llamadas[y].estado[k].Pagado >= llamadas[x].estado[k].Pagado
                /\ llamadas[y].estado[k].Pendiente <= llamadas[x].estado[k].Pendiente
                /\ llamadas[x].estado[k].Estado = "Al dia" =>
                       llamadas[y].estado[k].Estado = "Al dia"
            /\ Cardinality(Vencidas(y)) <= Cardinality(Vencidas(x))
\* Read on the same day after one payment and after a second one: an
\* installment that was Vencida is Al dia, and another has more Pagado while
\* it stays Vencida.
C28_Testigo ==
    /\ DosDevueltas
    /\ llamadas["a"].hoy = llamadas["b"].hoy
    /\ PagosAgregados("a", "b")
    /\ Len(llamadas["a"].pagos) = 1 /\ Len(llamadas["b"].pagos) = 2
    /\ Cardinality(Vencidas("b")) < Cardinality(Vencidas("a"))
    /\ \E k \in FilasDos :
        /\ llamadas["a"].estado[k].Estado = "Vencida"
        /\ llamadas["b"].estado[k].Estado = "Vencida"
        /\ llamadas["b"].estado[k].Pagado > llamadas["a"].estado[k].Pagado

\* C29: with the same payments, an installment Vencida on one day is Vencida
\* on every later day, Pagado and Pendiente are the same on both days, and
\* an installment due on the day of the call or later is Al dia.
C29_SoloElTiempo ==
    /\ \A x \in {"a", "b"}, y \in {"a", "b"} :
        (/\ llamadas[x].ec = "devuelto" /\ llamadas[y].ec = "devuelto"
         /\ llamadas[x].pagos = llamadas[y].pagos
         /\ llamadas[x].hoy <= llamadas[y].hoy) =>
            \A k \in 1..Len(llamadas[x].estado) :
                /\ llamadas[x].estado[k].Estado = "Vencida" =>
                       llamadas[y].estado[k].Estado = "Vencida"
                /\ llamadas[y].estado[k].Pagado = llamadas[x].estado[k].Pagado
                /\ llamadas[y].estado[k].Pendiente = llamadas[x].estado[k].Pendiente
    /\ \A h \in {"a", "b"} :
        llamadas[h].ec = "devuelto" =>
            \A k \in 1..Len(llamadas[h].estado) :
                llamadas[h].estado[k].Fecha >= llamadas[h].hoy =>
                    llamadas[h].estado[k].Estado = "Al dia"
\* The same payments read on the due date of the last installment and on the
\* day after: the unpaid last installment is Al dia on its due date and
\* Vencida the day after, an earlier one is Vencida on both days.
C29_Testigo ==
    /\ DosDevueltas
    /\ llamadas["a"].pagos = llamadas["b"].pagos
    /\ llamadas["a"].hoy < llamadas["b"].hoy
    /\ \E k \in FilasDos :
        /\ llamadas["a"].estado[k].Fecha = llamadas["a"].hoy
        /\ llamadas["a"].estado[k].Pendiente > 0
        /\ llamadas["a"].estado[k].Estado = "Al dia"
        /\ llamadas["b"].estado[k].Estado = "Vencida"
    /\ \E k \in FilasDos :
        /\ llamadas["a"].estado[k].Estado = "Vencida"
        /\ llamadas["b"].estado[k].Estado = "Vencida"

====
